---- MODULE Spec2Model ----
(***************************************************************************)
(* Model of common/path_finder.cpp: the multi-criteria path finder of a    *)
(* single unit (cost, vertex, best_vertices, queue, the four expansion     *)
(* rules, run_search, find_path, unit_changed).                            *)
(*                                                                         *)
(* The map and the ruleset are outside path_finder.cpp.  They are the      *)
(* fields of the variable wld, chosen once in Init from a bounded family,  *)
(* and the operators named after the functions path_finder.cpp calls       *)
(* (unit_move_rate, unit_restore_hitpoints, ...) read them.                *)
(***************************************************************************)
EXTENDS Integers, Sequences, FiniteSets, TLC

\* ------------------------------------------------------------------ bounds
NumTiles == 3
MaxHp == 2

Tiles == 1..NumTiles

\* ------------------------------------------------------------ small helpers
Min(a, b) == IF a <= b THEN a ELSE b

Max(a, b) == IF a >= b THEN a ELSE b

RemoveAt(s, i) == SubSeq(s, 1, i - 1) \o SubSeq(s, i + 1, Len(s))

InsertAt(s, i, e) == SubSeq(s, 1, i - 1) \o <<e>> \o SubSeq(s, i, Len(s))

Range(s) == {s[i] : i \in 1..Len(s)}

\* ------------------------------------------------------------------- cost
\* cost::comparable: all four criteria go in the same direction.
CostComparable(c, other) ==
  LET a == other.turns - c.turns
      b == c.moves_left - other.moves_left
      cc == c.health - other.health
      d == c.fuel_left - other.fuel_left
  IN  (a <= 0 /\ b <= 0 /\ cc <= 0 /\ d <= 0)
      \/ (a >= 0 /\ b >= 0 /\ cc >= 0 /\ d >= 0)

\* cost::operator==: tie(turns, o.moves_left, o.health, o.fuel_left)
\*                == tie(o.turns, moves_left, health, fuel_left)
CostEq(c, other) ==
  /\ c.turns = other.turns
  /\ other.moves_left = c.moves_left
  /\ other.health = c.health
  /\ other.fuel_left = c.fuel_left

\* cost::operator<: lexicographic, fewer turns, then more moves, health, fuel.
CostLess(c, other) ==
  \/ c.turns < other.turns
  \/ /\ c.turns = other.turns
     /\ \/ other.moves_left < c.moves_left
        \/ /\ other.moves_left = c.moves_left
           /\ \/ other.health < c.health
              \/ /\ other.health = c.health
                 /\ other.fuel_left < c.fuel_left

\* ----------------------------------------------------------------- vertex
\* vertex::comparable
VertexComparable(v, other) ==
  /\ v.location = other.location
  /\ v.loaded = other.loaded
  /\ v.moved = other.moved
  /\ CostComparable(v.cost, other.cost)

\* vertex::operator==: the right-hand tuple is
\* tie(other.location, loaded, moved, other.cost): loaded and moved are the
\* left operand's own members.
VertexEq(v, other) ==
  /\ v.location = other.location
  /\ v.loaded = v.loaded
  /\ v.moved = v.moved
  /\ CostEq(v.cost, other.cost)

\* vertex::operator> is other.cost < cost; the queue is a min-queue on it.
VertexGreater(v, other) == CostLess(other.cost, v.cost)

\* vertex::fill_probe: the probe is the captured unit with the vertex's
\* tile, transporter, moved flag, fuel, hp and moves_left.
fill_probe(u, v) ==
  [u EXCEPT !.tile = v.location, !.transporter = v.loaded, !.moved = v.moved,
            !.fuel = v.cost.fuel_left, !.hp = v.cost.health,
            !.moves_left = v.cost.moves_left]

\* The order a freshly value-initialised vertex carries (the root).
NoOrder ==
  [order |-> "none", dir |-> "none", action |-> "none", target |-> 0]

\* ------------------------------------------- the map and the ruleset (wld)
\* Tiles are numbered row by row on a map m.width tiles wide.
Row(m, tile) == (tile - 1) \div m.width

Col(m, tile) == (tile - 1) % m.width

\* Two distinct tiles are adjacent when they are one step apart, diagonals
\* included.
Adjacent(m, a, b) ==
  /\ a # b
  /\ Row(m, a) - Row(m, b) \in {-1, 0, 1}
  /\ Col(m, a) - Col(m, b) \in {-1, 0, 1}

Cardinal(m, a, b) == Row(m, a) = Row(m, b) \/ Col(m, a) = Col(m, b)

\* The direction8 from tile a to the adjacent tile b.
DirName(m, a, b) ==
  LET dr == Row(m, b) - Row(m, a)
      dc == Col(m, b) - Col(m, a)
  IN  (IF dr < 0 THEN "NORTH" ELSE IF dr > 0 THEN "SOUTH" ELSE "")
      \o (IF dc < 0 THEN "WEST" ELSE IF dc > 0 THEN "EAST" ELSE "")

\* adjc_dir_iterate / adjc_iterate: the adjacent tiles in the order of
\* direction8 (north-west first, south-east last), which is the order of
\* the tile numbers.
RECURSIVE adjc_from(_, _, _)
adjc_from(m, tile, t) ==
  IF t > NumTiles THEN <<>>
  ELSE (IF Adjacent(m, tile, t)
        THEN <<[tile |-> t, dir |-> DirName(m, tile, t)]>> ELSE <<>>)
       \o adjc_from(m, tile, t + 1)

adjc_dir(m, tile) == adjc_from(m, tile, 1)

\* unit_move_rate(&probe)
unit_move_rate(m, probe) == m.move_rate

\* utype_fuel(probe.utype): 0 when the unit type uses no fuel.
utype_fuel(m, probe) == m.fuel

\* is_unit_being_refueled(&probe): transported, or in a city.
is_unit_being_refueled(m, probe) ==
  probe.transporter # 0 \/ probe.tile \in m.cities

\* unit_restore_hitpoints(&probe): a unit that did not move regains
\* m.regen, a unit neither transported nor in a city loses m.loss; the
\* result is clamped to 0..MaxHp.  Returns the new probe.hp.
unit_restore_hitpoints(m, probe) ==
  LET gained == Min(MaxHp, probe.hp + (IF probe.moved THEN 0 ELSE m.regen))
      safe == probe.transporter # 0 \/ probe.tile \in m.cities
  IN  Max(0, gained - (IF safe THEN 0 ELSE m.loss))

\* unit_can_move_to_tile(&wld.map, &probe, target, false, false)
unit_can_move_to_tile(m, probe, target) == m.terrain[target] = "land"

\* map_move_cost_unit(&wld.map, &probe, target): nothing along a railway
\* (which runs in the cardinal directions only), else the cost of the
\* target's terrain.
map_move_cost_unit(m, probe, target) ==
  IF probe.tile \in m.rails /\ target \in m.rails
     /\ Cardinal(m, probe.tile, target)
  THEN 0
  ELSE IF target \in m.hills THEN 2 ELSE 1

\* unit_pays_mp_for_action(action_by_number(action), &probe)
unit_pays_mp_for_action(m, action, probe) == m.action_mp

\* transporter_for_unit(&probe): the transport standing on the probe's
\* tile, named by its tile; 0 stands for nullptr.
transporter_for_unit(m, probe) ==
  IF probe.tile \in m.transports THEN probe.tile ELSE 0

\* is_action_enabled_unit_on_unit(action, &probe, transport): boarding and
\* embarking need a transport other than the one the probe is inside;
\* alighting needs the probe's transport on the probe's own tile and
\* terrain the unit can stand on.
is_action_enabled_unit_on_unit(m, action, probe, transport) ==
  CASE action = "ACTION_TRANSPORT_BOARD" ->
         transport # 0 /\ transport # probe.transporter
            /\ transport = probe.tile
    [] action = "ACTION_TRANSPORT_EMBARK" ->
         transport # 0 /\ transport # probe.transporter
            /\ Adjacent(m, probe.tile, transport)
    [] action = "ACTION_TRANSPORT_ALIGHT" ->
         transport # 0 /\ transport = probe.tile
            /\ m.terrain[probe.tile] = "land"
    [] OTHER -> FALSE

\* is_action_enabled_unit_on_tile(action, &probe, target, nullptr) for the
\* two disembark actions: a transported unit, terrain it can move to.
is_action_enabled_unit_on_tile(m, action, probe, target) ==
  /\ action \in {"ACTION_TRANSPORT_DISEMBARK1", "ACTION_TRANSPORT_DISEMBARK2"}
  /\ probe.transporter # 0
  /\ m.terrain[target] = "land"
  /\ (action = "ACTION_TRANSPORT_DISEMBARK2" => m.disembark2)

\* vertex::child_for_action: a copy of the vertex `self` (at address id)
\* whose moves_left is assigned the action's move cost.
child_for_action(m, self, id, action, probe, target) ==
  [self EXCEPT
     !.parent = id,
     !.order = [order |-> "ORDER_PERFORM_ACTION", dir |-> "ORIGIN",
                action |-> action, target |-> target],
     !.cost.moves_left = unit_pays_mp_for_action(m, action, probe)]

\* ------------------------------------------------------- expansion rules
\* Each rule yields the vertices it hands to maybe_insert_vertex, in call
\* order.  source is the vertex owned by best_vertices at address id.

\* A rule under which a unit that has no move left does not try to move.
may_move_with_moves_left(source) ==
  source.loaded = 0 /\ source.cost.moves_left > 0

\* A rule that moves a unit whether or not it is loaded.
may_move_when_loaded(source) == TRUE

\* The guard of attempt_move: loaded units are not moved.
may_move(source) == source.loaded = 0

\* attempt_move
attempt_move(u, m, source, id) ==
  IF ~may_move(source) THEN <<>>
  ELSE
    LET probe == fill_probe(u, source)
        adj == adjc_dir(m, source.location)
        ok(i) == /\ m.terrain[adj[i].tile] # "unknown"
                 /\ unit_can_move_to_tile(m, probe, adj[i].tile)
        next(i) ==
          LET move_cost == Min(map_move_cost_unit(m, probe, adj[i].tile),
                               probe.moves_left)
          IN  [source EXCEPT
                 !.location = adj[i].tile,
                 !.moved = TRUE,
                 !.cost.moves_left = @ - move_cost,
                 !.parent = id,
                 !.order.order = "ORDER_MOVE",
                 !.order.dir = adj[i].dir]
        F[i \in 0..Len(adj)] ==
          IF i = 0 THEN <<>>
          ELSE F[i - 1] \o (IF ok(i) THEN <<next(i)>> ELSE <<>>)
    IN  F[Len(adj)]

\* attempt_full_mp
attempt_full_mp(u, m, source, id) ==
  << [source EXCEPT !.cost.moves_left = 0,
                    !.parent = id,
                    !.order.order = "ORDER_FULL_MP"] >>

\* attempt_load: board the transport on the same tile, then embark into
\* the transports of the adjacent tiles.  The embark successor keeps the
\* source's location.
attempt_load(u, m, source, id) ==
  LET probe == fill_probe(u, source)
      transport == transporter_for_unit(m, probe)
      board ==
        IF transport # 0
           /\ is_action_enabled_unit_on_unit(m, "ACTION_TRANSPORT_BOARD",
                                             probe, transport)
        THEN << [child_for_action(m, source, id, "ACTION_TRANSPORT_BOARD",
                                  probe, probe.tile)
                   EXCEPT !.loaded = transport] >>
        ELSE <<>>
      adj == adjc_dir(m, probe.tile)
      tr(i) == transporter_for_unit(m, [probe EXCEPT !.tile = adj[i].tile])
      ok(i) == tr(i) # 0
               /\ is_action_enabled_unit_on_unit(m, "ACTION_TRANSPORT_EMBARK",
                                                 probe, tr(i))
      next(i) ==
        [child_for_action(m, source, id, "ACTION_TRANSPORT_EMBARK", probe,
                          adj[i].tile)
           EXCEPT !.cost.moves_left =
                     @ - map_move_cost_unit(m, probe, adj[i].tile),
                  !.moved = TRUE,
                  !.loaded = tr(i)]
      F[i \in 0..Len(adj)] ==
        IF i = 0 THEN <<>>
        ELSE F[i - 1] \o (IF ok(i) THEN <<next(i)>> ELSE <<>>)
  IN  board \o F[Len(adj)]

\* attempt_unload: alight on the same tile, then both disembark actions
\* towards each adjacent tile.  The disembark successors keep the source's
\* location.
attempt_unload(u, m, source, id) ==
  LET probe == fill_probe(u, source)
      alight ==
        IF is_action_enabled_unit_on_unit(m, "ACTION_TRANSPORT_ALIGHT",
                                          probe, probe.transporter)
        THEN << [child_for_action(m, source, id, "ACTION_TRANSPORT_ALIGHT",
                                  probe, probe.tile)
                   EXCEPT !.loaded = 0] >>
        ELSE <<>>
      adj == adjc_dir(m, probe.tile)
      next(a, i) ==
        [child_for_action(m, source, id, a, probe, adj[i].tile)
           EXCEPT !.moved = TRUE,
                  !.loaded = 0,
                  !.cost.moves_left =
                     @ - map_move_cost_unit(m, probe, adj[i].tile)]
      try(a, i) ==
        IF is_action_enabled_unit_on_tile(m, a, probe, adj[i].tile)
        THEN <<next(a, i)>> ELSE <<>>
      F[i \in 0..Len(adj)] ==
        IF i = 0 THEN <<>>
        ELSE F[i - 1] \o try("ACTION_TRANSPORT_DISEMBARK1", i)
                      \o try("ACTION_TRANSPORT_DISEMBARK2", i)
  IN  IF probe.transporter # 0 THEN alight \o F[Len(adj)] ELSE <<>>

\* The four rules in the order run_search calls them.
Expansion(u, m, source, id) ==
  attempt_move(u, m, source, id) \o attempt_full_mp(u, m, source, id)
  \o attempt_load(u, m, source, id) \o attempt_unload(u, m, source, id)

\* --------------------------------------------- best_vertices and queue
\* The private state d of a path finder is a record:
\*   arena          every vertex allocated since the last reset, by address
\*                  (address = index); a vertex erased from best_vertices
\*                  keeps its slot, which is then freed memory
\*   best_vertices  the multimap, as the sequence of the addresses it owns,
\*                  ordered by location, insertion order within a location
\*   queue          the priority queue, as the sequence of its vertex
\*                  copies, cheapest first, insertion order among equal costs

\* std::multimap::lower_bound / upper_bound as positions in the sequence.
lower_bound(d, loc) ==
  1 + Cardinality({i \in 1..Len(d.best_vertices) :
                     d.arena[d.best_vertices[i]].location < loc})

upper_bound(d, loc) ==
  1 + Cardinality({i \in 1..Len(d.best_vertices) :
                     d.arena[d.best_vertices[i]].location <= loc})

\* best_vertices.emplace(loc, make_unique<vertex>(v))
emplace(d, v) ==
  LET id == Len(d.arena) + 1
  IN  [d EXCEPT !.arena = Append(@, v),
                !.best_vertices = InsertAt(@, upper_bound(d, v.location), id)]

\* queue.push(v)
push(q, v) ==
  LET k == Cardinality({i \in 1..Len(q) : ~VertexGreater(q[i], v)})
  IN  InsertAt(q, k + 1, v)

\* insert_initial_vertex
insert_initial_vertex(u, d) ==
  LET v == [location |-> u.tile,
            loaded |-> u.transporter,
            moved |-> u.moved,
            cost |-> [turns |-> 0, moves_left |-> u.moves_left,
                      health |-> u.hp, fuel_left |-> u.fuel],
            parent |-> 0,
            order |-> NoOrder]
  IN  emplace([d EXCEPT !.queue = push(@, v)], v)

\* The empty private state, before the constructor body and after clear().
EmptyState == [arena |-> <<>>, best_vertices |-> <<>>, queue |-> <<>>]

\* A turn change that counts the turn twice.
turn_after_next(turns) == turns + 2

\* insert.cost.turns++
next_turn(turns) == turns + 1

\* A fuel test that lets a unit fly on its last unit of fuel.
out_of_fuel_at_zero(probe) == probe.fuel <= 0

\* probe.fuel <= 1: the unit dies.
out_of_fuel(probe) == probe.fuel <= 1

\* The turn change of maybe_insert_vertex (v.cost.moves_left <= 0):
\* dead when one of the two early returns is taken, else the adjusted copy.
TurnChange(u, m, v) ==
  LET probe == fill_probe(u, v)
      uses_fuel == utype_fuel(m, probe) # 0
      refuel == is_unit_being_refueled(m, probe)
      fuel_dead == uses_fuel /\ ~refuel /\ out_of_fuel(probe)
      fuel_left == IF ~uses_fuel THEN v.cost.fuel_left
                   ELSE IF refuel THEN utype_fuel(m, probe)
                   ELSE v.cost.fuel_left - 1
      probe_fuel == IF ~uses_fuel THEN probe.fuel
                    ELSE IF refuel THEN utype_fuel(m, probe)
                    ELSE probe.fuel - 1
      hp == unit_restore_hitpoints(m, [probe EXCEPT !.fuel = probe_fuel])
  IN  [dead |-> fuel_dead \/ hp <= 0,
       insert |-> [v EXCEPT !.cost.turns = next_turn(@),
                            !.cost.moves_left = unit_move_rate(m, probe),
                            !.cost.fuel_left = fuel_left,
                            !.cost.health = hp,
                            !.moved = FALSE]]

\* A scan that leaves in place the entries the candidate improves on.
RECURSIVE ScanBucketKeepsWorse(_, _, _, _, _)
ScanBucketKeepsWorse(arena, bv, i, hi, insert) ==
  IF i >= hi THEN [bv |-> bv, do_insert |-> TRUE]
  ELSE
    LET e == arena[bv[i]]
        comparable == VertexComparable(e, insert)
    IN  IF comparable /\ CostLess(insert.cost, e.cost)
        THEN ScanBucketKeepsWorse(arena, bv, i + 1, hi, insert)
        ELSE IF comparable THEN [bv |-> bv, do_insert |-> FALSE]
        ELSE ScanBucketKeepsWorse(arena, bv, i + 1, hi, insert)

\* A scan that also removes the entry that makes it reject the candidate.
RECURSIVE ScanBucketEvictsThenRejects(_, _, _, _, _)
ScanBucketEvictsThenRejects(arena, bv, i, hi, insert) ==
  IF i >= hi THEN [bv |-> bv, do_insert |-> TRUE]
  ELSE
    LET e == arena[bv[i]]
        comparable == VertexComparable(e, insert)
    IN  IF comparable /\ CostLess(insert.cost, e.cost)
        THEN ScanBucketEvictsThenRejects(arena, RemoveAt(bv, i), i, hi - 1,
                                         insert)
        ELSE IF comparable
             THEN [bv |-> RemoveAt(bv, i), do_insert |-> FALSE]
        ELSE ScanBucketEvictsThenRejects(arena, bv, i + 1, hi, insert)

\* The scan of maybe_insert_vertex over equal_range(v.location): positions
\* i..hi-1 of bv remain to be visited.  Erases the entries the candidate
\* strictly improves on; stops at the first comparable entry it does not.
RECURSIVE ScanBucket(_, _, _, _, _)
ScanBucket(arena, bv, i, hi, insert) ==
  IF i >= hi THEN [bv |-> bv, do_insert |-> TRUE]
  ELSE
    LET e == arena[bv[i]]
        comparable == VertexComparable(e, insert)
    IN  IF comparable /\ CostLess(insert.cost, e.cost)
        THEN ScanBucket(arena, RemoveAt(bv, i), i, hi - 1, insert)
        ELSE IF comparable THEN [bv |-> bv, do_insert |-> FALSE]
        ELSE ScanBucket(arena, bv, i + 1, hi, insert)

\* A turn that ends only for a unit left with a negative number of moves.
turn_ends_below_zero(v) == v.cost.moves_left < 0

\* The test that starts the handling of the turn change.
turn_ends(v) == v.cost.moves_left <= 0

\* maybe_insert_vertex(v): the private state after the call.
maybe_insert_vertex(u, m, d, v) ==
  LET tc == TurnChange(u, m, v)
      turn == turn_ends(v)
      insert == IF turn THEN tc.insert ELSE v
      scan == ScanBucket(d.arena, d.best_vertices, lower_bound(d, v.location),
                         upper_bound(d, v.location), insert)
      scanned == [d EXCEPT !.best_vertices = scan.bv]
  IN  IF turn /\ tc.dead THEN d
      ELSE IF scan.do_insert
           THEN emplace([scanned EXCEPT !.queue = push(@, insert)], insert)
           ELSE scanned

\* ------------------------------------------------------------ run_search
\* best_vertices.find(loc) != best_vertices.end()
has_bucket(d, loc) == lower_bound(d, loc) < upper_bound(d, loc)

\* The vertex best_vertices.find(loc) points to: the first of the bucket.
first_of(d, loc) == d.arena[d.best_vertices[lower_bound(d, loc)]]

\* std::find_if(begin, end, *pair.second == v) over equal_range(v.location):
\* the position of the first match, or the position `end` of the range.
find_if(d, v) ==
  LET lo == lower_bound(d, v.location)
      hi == upper_bound(d, v.location)
      hits == {i \in lo..(hi - 1) : VertexEq(d.arena[d.best_vertices[i]], v)}
  IN  IF hits = {} THEN hi
      ELSE CHOOSE i \in hits : \A j \in hits : i <= j

\* The test run_search makes on the iterator find_if returned: the popped
\* vertex counts as not found when the iterator is best_vertices.end().
not_found(d, it) == it = Len(d.best_vertices) + 1

\* A loop that leaves the vertex it has read at the top of the queue.
top_again(q) == q

\* queue.pop()
pop(q) == Tail(q)

\* One iteration of the while loop of run_search on a non-empty queue,
\* up to the point where the expansion rules are called:
\*   kind "found"  the top of the queue is at the stopping condition
\*   kind "skip"   the popped vertex was not found (continue)
\*   kind "expand" parent is the address handed to the expansion rules
loop_head(d, stopping_condition) ==
  LET v == Head(d.queue)
      popped == [d EXCEPT !.queue = pop(@)]
      it == find_if(popped, v)
  IN  IF v.location = stopping_condition
      THEN [kind |-> "found", d |-> d, parent |-> 0]
      ELSE IF not_found(popped, it)
      THEN [kind |-> "skip", d |-> popped, parent |-> 0]
      ELSE [kind |-> "expand", d |-> popped,
            parent |-> popped.best_vertices[it]]

\* ------------------------------------------------------------- find_path
\* The step find_path records for a vertex: {location, turns, turns, order}.
step_of(v) == [location |-> v.location, turns |-> v.cost.turns,
               order |-> v.order]

\* The selection loop of find_path: the address of the first vertex of the
\* destination's bucket that no other one is cheaper than; 0 when the
\* bucket is empty (best stays nullptr).
best_of(d, destination) ==
  LET lo == lower_bound(d, destination)
      hi == upper_bound(d, destination)
      F[i \in (lo - 1)..(hi - 1)] ==
        IF i = lo - 1 THEN 0
        ELSE IF F[i - 1] = 0
                \/ CostLess(d.arena[d.best_vertices[i]].cost,
                            d.arena[F[i - 1]].cost)
             THEN d.best_vertices[i]
             ELSE F[i - 1]
  IN  F[hi - 1]

\* The parent walk of find_path from the vertex at address id, reversed:
\* the steps from the root's first successor to id.
RECURSIVE build_path(_, _)
build_path(arena, id) ==
  IF arena[id].parent = 0 THEN <<>>
  ELSE Append(build_path(arena, arena[id].parent), step_of(arena[id]))

\* The addresses the parent walk reads.
RECURSIVE walked(_, _)
walked(arena, id) ==
  IF arena[id].parent = 0 THEN {id}
  ELSE {id} \cup walked(arena, arena[id].parent)

\* The walk reads freed memory when an address it visits is no longer
\* owned by best_vertices, and dereferences nullptr when best is nullptr.
walk_undefined(d, best) ==
  best = 0 \/ walked(d.arena, best) \ Range(d.best_vertices) # {}

\* What a walk through freed memory may return besides the stale contents.
Garbage == << [location |-> 0, turns |-> 0, order |-> NoOrder] >>

\* The paths find_path may return once run_search returned true.
extract(d, destination) ==
  LET best == best_of(d, destination)
  IN  IF best = 0 THEN {Garbage}
      ELSE {build_path(d.arena, best)}
           \cup (IF walk_undefined(d, best) THEN {Garbage} ELSE {})

\* The expansion of one parent: maybe_insert_vertex on each successor.
RECURSIVE insert_all(_, _, _, _)
insert_all(u, m, d, vs) ==
  IF vs = <<>> THEN d
  ELSE insert_all(u, m, maybe_insert_vertex(u, m, d, Head(vs)), Tail(vs))

\* The while loop of run_search run to its return.
RECURSIVE run_loop(_, _, _, _)
run_loop(u, m, d, stopping_condition) ==
  IF d.queue = <<>> THEN [found |-> FALSE, d |-> d]
  ELSE
    LET h == loop_head(d, stopping_condition)
    IN  CASE h.kind = "found" -> [found |-> TRUE, d |-> d]
          [] h.kind = "skip" -> run_loop(u, m, h.d, stopping_condition)
          [] h.kind = "expand" ->
               run_loop(u, m,
                        insert_all(u, m, h.d,
                                   Expansion(u, m, h.d.arena[h.parent],
                                             h.parent)),
                        stopping_condition)

\* An early return that forgets the units frozen by the scenario.
early_return_at_destination(u, dest) == u.tile = dest

\* The two early returns of find_path: the unit must stay, or it already
\* stands on the destination.
early_return(u, dest) == u.stay \/ u.tile = dest

\* The paths find_path(dest) may return on a path finder just constructed
\* for the unit u: best_vertices holds the root only, so run_search goes
\* straight to its loop.
fresh_find_path(u, m, dest) ==
  IF early_return(u, dest) THEN {<<>>}
  ELSE LET r == run_loop(u, m, insert_initial_vertex(u, EmptyState), dest)
       IN  IF r.found THEN extract(r.d, dest) ELSE {<<>>}

\* ------------------------------------------------------------------ state
VARIABLES
  unit,         \* m_d->unit: the copy of the unit taken by the constructor
  wld,          \* the map and the ruleset the rules are evaluated against
  m_d,          \* the private state: arena, best_vertices, queue
  pc,           \* "idle", or "run_search" inside the while loop
  destination,  \* the argument of the find_path call in progress
  pending,      \* vertices the current expansion has still to hand to
                \* maybe_insert_vertex
  ret,          \* the last completed call and what it returned
  again,        \* set when find_path is called with the destination of the
                \* call completed just before: that call's path and the
                \* private state it left
  last_insert   \* the last maybe_insert_vertex call: the candidate, whether
                \* it died at the turn change, was rejected or admitted, and
                \* how many entries the call erased

vars == <<unit, wld, m_d, pc, destination, pending, ret, again, last_insert>>

\* ret.first: the call was the first one after the construction or after
\* unit_changed.
NoCall == [op |-> "none", dest |-> 0, found |-> FALSE, path |-> <<>>,
           undefined |-> FALSE, first |-> FALSE]

NotAgain == [same |-> FALSE, path |-> <<>>, m_d |-> EmptyState]

NoInsert == [called |-> FALSE, outcome |-> "none", erased |-> 0]

\* ------------------------------------------------------- the world family
AllLand == [t \in Tiles |-> "land"]

\* Maps with at most one tile that is not plain land.
Terrains ==
  {AllLand} \cup {[AllLand EXCEPT ![t] = k] :
                    t \in Tiles, k \in {"ocean", "unknown"}}

AtMostOne == {{}} \cup {{t} : t \in Tiles}

\* The map is one row of tiles, or rows of two tiles.
Widths == {2, NumTiles}

\* A railway along a chain of three tiles, or none.
Rails == {{}} \cup {r \in SUBSET Tiles : Cardinality(r) = 3}

\* One tile of hills, or a railway, or neither.
HillsOrRails ==
  {<<h, {}>> : h \in AtMostOne} \cup {<<{}, r>> : r \in Rails}

\* A railway along the first three tiles, or none.
TrunkRails == {{}, 1..3}

NewUnit(tile, transporter, moved, moves_left, hp, fuel, stay) ==
  [tile |-> tile, transporter |-> transporter, moved |-> moved,
   moves_left |-> moves_left, hp |-> hp, fuel |-> fuel, stay |-> stay]

NewMap(width, terrain, hills, rails, transports, cities) ==
  [width |-> width, terrain |-> terrain, hills |-> hills, rails |-> rails,
   transports |-> transports, cities |-> cities]

\* The move rate of the unit's type, and the fuel of the types that use
\* fuel.
MoveRate == 2

FuelCapacity == 2

\* A map together with the ruleset values of the unit's type.
NewWorld(map, fuel, regen, loss, action_mp) ==
  [width |-> map.width, terrain |-> map.terrain, hills |-> map.hills,
   rails |-> map.rails, transports |-> map.transports,
   cities |-> map.cities, move_rate |-> MoveRate, fuel |-> fuel,
   regen |-> regen, loss |-> loss, action_mp |-> action_mp, disembark2 |-> TRUE]

\* Terrain and move costs (hills or a railway), a unit without fuel that
\* neither heals nor suffers.
TerrainWorlds ==
  {<<NewUnit(t, 0, FALSE, ml, MaxHp, 0, FALSE),
     NewWorld(NewMap(w, ter, hr[1], hr[2], {}, {}), 0, 0, 0, 0)>> :
     t \in Tiles, ml \in 0..MoveRate, w \in Widths, ter \in Terrains,
     hr \in HillsOrRails}

\* Health: regeneration, damage outside cities.
HealthWorlds ==
  {<<NewUnit(t, 0, mv, ml, hp, 0, FALSE),
     NewWorld(NewMap(w, AllLand, {}, r, {}, c), 0, rl[1], rl[2], 0)>> :
     t \in Tiles, mv \in BOOLEAN, ml \in {0, MoveRate}, hp \in 1..MaxHp,
     w \in Widths, r \in TrunkRails, c \in AtMostOne,
     rl \in {<<1, 0>>, <<0, 1>>, <<1, 1>>}}

\* Fuel, refilled in cities.
FuelWorlds ==
  {<<NewUnit(t, 0, FALSE, ml, MaxHp, f, FALSE),
     NewWorld(NewMap(w, AllLand, h, {}, {}, c), FuelCapacity, 0, 0, 0)>> :
     t \in Tiles, ml \in 1..MoveRate, f \in 1..FuelCapacity, w \in Widths,
     c \in AtMostOne, h \in AtMostOne}

\* Transports: one transport, the unit possibly inside it, actions that
\* cost no move or a full move rate.
TransportWorlds ==
  {<<NewUnit(t, IF ld /\ tr = t THEN tr ELSE 0, FALSE, ml, MaxHp, 0, FALSE),
     NewWorld(NewMap(w, ter, {}, {}, {tr}, {}), 0, 0, loss, amp)>> :
     t \in Tiles, tr \in Tiles, ld \in BOOLEAN, ml \in 0..MoveRate,
     w \in Widths,
     ter \in {AllLand} \cup {[AllLand EXCEPT ![x] = "ocean"] : x \in Tiles},
     loss \in 0..1, amp \in {0, MoveRate}}

\* A unit frozen by the scenario.
StayWorlds ==
  {<<NewUnit(t, 0, FALSE, MoveRate, MaxHp, 0, TRUE),
     NewWorld(NewMap(NumTiles, AllLand, {}, {}, {}, {}), 0, 0, 0, 0)>> :
     t \in Tiles}

\* A unit stands on terrain it can stand on, or is inside a transport.
Worlds ==
  {w \in TerrainWorlds \cup HealthWorlds \cup FuelWorlds
         \cup TransportWorlds \cup StayWorlds :
     w[2].terrain[w[1].tile] = "land" \/ w[1].transporter # 0}

\* ------------------------------------------------------------------- Init
\* path_finder::path_finder: copy the unit, insert the initial vertex.
Init ==
  /\ \E w \in Worlds : unit = w[1] /\ wld = w[2]
  /\ m_d = insert_initial_vertex(unit, EmptyState)
  /\ pc = "idle"
  /\ destination = 0
  /\ pending = <<>>
  /\ ret = NoCall
  /\ again = NotAgain
  /\ last_insert = NoInsert

\* --------------------------------------------------------------- actions
\* find_path returns: run_search returned `found`; the path is one of those
\* the extraction may produce.
ReturnFrom(call, found, undefined) ==
  /\ pc' = "idle"
  /\ pending' = <<>>
  /\ \E p \in (IF found THEN extract(m_d', destination') ELSE {<<>>}) :
       ret' = [op |-> "find_path", dest |-> destination', found |-> found,
               path |-> p,
               undefined |-> undefined \/ p = Garbage,
               first |-> call.first]

\* The record of a call in progress.
Calling(dest, undefined) ==
  [op |-> "find_path", dest |-> dest, found |-> FALSE, path |-> <<>>,
   undefined |-> undefined, first |-> ret.op # "find_path"]

\* find_path(dest), up to the while loop of run_search: the two early
\* returns, then the test for a path found by an earlier call.  The test
\* reads queue.top() whatever the queue holds; on an empty queue the cost
\* it compares is whatever lies in the container's storage.
FindPath(dest) ==
  /\ pc = "idle"
  /\ destination' = dest
  /\ again' = IF ret.op = "find_path" /\ ret.dest = dest
              THEN [same |-> TRUE, path |-> ret.path, m_d |-> m_d]
              ELSE NotAgain
  /\ last_insert' = NoInsert
  /\ UNCHANGED <<unit, wld, m_d>>
  /\ IF early_return(unit, dest)
     THEN /\ pc' = "idle"
          /\ pending' = <<>>
          /\ ret' = Calling(dest, FALSE)
     ELSE IF has_bucket(m_d, dest)
     THEN \E cheaper \in (IF m_d.queue = <<>> THEN BOOLEAN
                          ELSE {CostLess(Head(m_d.queue).cost,
                                         first_of(m_d, dest).cost)}) :
            IF ~cheaper
            THEN ReturnFrom(Calling(dest, FALSE), TRUE, m_d.queue = <<>>)
            ELSE /\ pc' = "run_search"
                 /\ pending' = <<>>
                 /\ ret' = Calling(dest, m_d.queue = <<>>)
     ELSE /\ pc' = "run_search"
          /\ pending' = <<>>
          /\ ret' = Calling(dest, FALSE)

\* The while loop of run_search between two expansions: the loop test, the
\* arrival test, the pop, the lookup of the popped vertex, and the
\* collection of the successors the four rules build from the parent.
Loop ==
  /\ pc = "run_search"
  /\ pending = <<>>
  /\ UNCHANGED <<unit, wld, destination, again, last_insert>>
  /\ IF m_d.queue = <<>>
     THEN /\ m_d' = m_d
          /\ ReturnFrom(ret, FALSE, ret.undefined)
     ELSE LET h == loop_head(m_d, destination)
          IN  /\ m_d' = h.d
              /\ CASE h.kind = "found" -> ReturnFrom(ret, TRUE, ret.undefined)
                   [] h.kind = "skip" ->
                        /\ pc' = "run_search"
                        /\ pending' = <<>>
                        /\ ret' = ret
                   [] h.kind = "expand" ->
                        /\ pc' = "run_search"
                        /\ pending' = Expansion(unit, wld,
                                                h.d.arena[h.parent], h.parent)
                        /\ ret' = ret

\* One maybe_insert_vertex call of the expansion in progress.
Insert ==
  /\ pc = "run_search"
  /\ pending # <<>>
  /\ LET v == Head(pending)
         after == maybe_insert_vertex(unit, wld, m_d, v)
     IN  /\ m_d' = after
         /\ last_insert' =
              [called |-> TRUE,
               outcome |-> IF Len(after.arena) > Len(m_d.arena)
                           THEN "admitted"
                           ELSE IF turn_ends(v)
                                   /\ TurnChange(unit, wld, v).dead
                           THEN "died" ELSE "rejected",
               erased |-> Len(m_d.best_vertices) + Len(after.arena)
                          - Len(m_d.arena) - Len(after.best_vertices)]
  /\ pending' = Tail(pending)
  /\ UNCHANGED <<unit, wld, pc, destination, ret, again>>

\* The unit as a caller of unit_changed may find it: on the tile t, its
\* moves spent.
ChangedUnit(t) == [unit EXCEPT !.tile = t, !.moves_left = 0, !.moved = TRUE]

\* An invalidation that starts again from the unit it is handed.
UnitChangedFromArgument(changed) ==
  /\ pc = "idle"
  /\ m_d' = insert_initial_vertex(changed, EmptyState)
  /\ ret' = [NoCall EXCEPT !.op = "unit_changed"]
  /\ again' = NotAgain
  /\ UNCHANGED <<unit, wld, pc, destination, pending, last_insert>>

\* unit_changed(changed): clear best_vertices, empty the queue, insert the
\* initial vertex again.  Every vertex allocated so far is released.  The
\* argument is unused (Q_UNUSED): the initial vertex is built from the copy
\* of the unit the constructor took.
UnitChanged(changed) ==
  /\ pc = "idle"
  /\ m_d' = insert_initial_vertex(unit, EmptyState)
  /\ ret' = [NoCall EXCEPT !.op = "unit_changed"]
  /\ again' = NotAgain
  /\ UNCHANGED <<unit, wld, pc, destination, pending, last_insert>>

Next ==
  \/ \E dest \in Tiles : FindPath(dest)
  \/ Loop
  \/ Insert
  \/ \E t \in Tiles : UnitChanged(ChangedUnit(t))

Spec == Init /\ [][Next]_vars

\* ============================================================ properties
Returned == pc = "idle" /\ ret.op = "find_path"

LastStep == ret.path[Len(ret.path)]

\* ------------------------------------------- the orders the rules document
\* The state of the unit a vertex stands for, apart from the turn count.
RState(v) ==
  [location |-> v.location, loaded |-> v.loaded, moved |-> v.moved,
   cost |-> [v.cost EXCEPT !.turns = 0]]

RootState(u) ==
  [location |-> u.tile, loaded |-> u.transporter, moved |-> u.moved,
   cost |-> [turns |-> 0, moves_left |-> u.moves_left, health |-> u.hp,
             fuel_left |-> u.fuel]]

\* The state an order leaves the unit in: unchanged while moves are left,
\* else the state the turn change produces, if the unit survives it.
Settle(u, m, s) ==
  IF s.cost.moves_left > 0 THEN {[turn |-> FALSE, s |-> s]}
  ELSE LET tc == TurnChange(u, m, s)
       IN  IF tc.dead THEN {}
           ELSE {[turn |-> TRUE, s |-> [tc.insert EXCEPT !.cost.turns = 0]]}

\* The orders a unit in state s may legally be given, as the expansion
\* rules are documented: a move to a neighbour, at the cost of the move
\* capped by the moves left; a wait; boarding the transport on the same
\* tile and alighting from it, at the cost of the action; embarking into
\* a transport on a neighbouring tile and disembarking to a neighbouring
\* tile, which relocate the unit and cost the action and the move.
LegalOrders(u, m, s) ==
  LET probe == fill_probe(u, s)
      adj == adjc_dir(m, s.location)
      A == {adj[i].tile : i \in 1..Len(adj)}
      tr == transporter_for_unit(m, probe)
  IN  {[s EXCEPT !.location = t, !.moved = TRUE,
                 !.cost.moves_left =
                    @ - Min(map_move_cost_unit(m, probe, t),
                            probe.moves_left)] :
         t \in {t \in A : /\ s.loaded = 0
                          /\ m.terrain[t] # "unknown"
                          /\ unit_can_move_to_tile(m, probe, t)}}
      \cup {[s EXCEPT !.cost.moves_left = 0]}
      \cup (IF tr # 0 /\ is_action_enabled_unit_on_unit(
                           m, "ACTION_TRANSPORT_BOARD", probe, tr)
            THEN {[s EXCEPT !.loaded = tr,
                            !.cost.moves_left = @ - m.action_mp]}
            ELSE {})
      \cup {[s EXCEPT !.location = t, !.loaded = t, !.moved = TRUE,
                      !.cost.moves_left =
                         @ - m.action_mp
                           - map_move_cost_unit(m, probe, t)] :
              t \in {t \in A : /\ t \in m.transports
                               /\ is_action_enabled_unit_on_unit(
                                    m, "ACTION_TRANSPORT_EMBARK", probe, t)}}
      \cup (IF s.loaded # 0 /\ is_action_enabled_unit_on_unit(
                                 m, "ACTION_TRANSPORT_ALIGHT", probe,
                                 probe.transporter)
            THEN {[s EXCEPT !.loaded = 0,
                            !.cost.moves_left = @ - m.action_mp]}
            ELSE {})
      \cup {[s EXCEPT !.location = t, !.loaded = 0, !.moved = TRUE,
                      !.cost.moves_left =
                         @ - m.action_mp
                           - map_move_cost_unit(m, probe, t)] :
              t \in {t \in A : /\ s.loaded # 0
                               /\ is_action_enabled_unit_on_tile(
                                    m, "ACTION_TRANSPORT_DISEMBARK1",
                                    probe, t)}}

LegalSucc(u, m, s) == UNION {Settle(u, m, o) : o \in LegalOrders(u, m, s)}

\* The states legal orders reach from the states S within the turn.
RECURSIVE SameTurn(_, _, _)
SameTurn(u, m, S) ==
  LET N == S \cup {r.s : r \in {r \in UNION {LegalSucc(u, m, s) : s \in S} :
                                   ~r.turn}}
  IN  IF N = S THEN S ELSE SameTurn(u, m, N)

\* The states the units in the states S start their next turn in.
NextTurn(u, m, S) ==
  {r.s : r \in {r \in UNION {LegalSucc(u, m, s) : s \in S} : r.turn}}

\* The number of the first turn in which a state at d is reached, layer
\* being the states first reached in turn k; -1 when there is none.
RECURSIVE MinTurnsFrom(_, _, _, _, _, _)
MinTurnsFrom(u, m, layer, seen, k, d) ==
  IF \E s \in layer : s.location = d THEN k
  ELSE LET nxt == SameTurn(u, m, NextTurn(u, m, layer)) \ seen
       IN  IF nxt = {} THEN -1
           ELSE MinTurnsFrom(u, m, nxt, seen \cup nxt, k + 1, d)

\* The least number of turns in which a legal sequence of orders takes the
\* unit u to d alive; -1 when no legal sequence does.
MinTurns(u, m, d) ==
  LET first == SameTurn(u, m, {RootState(u)})
  IN  MinTurnsFrom(u, m, first, first, 0, d)

\* ------------------------------------------------------------------- C1
\* C1: whenever find_path(d) returns a non-empty path, the turns of its
\* last step is the least number of turns in which a legal sequence of
\* move, wait, load and unload orders takes the unit from the root state
\* to d without it dying at a turn change.
C1_OptimalTurns ==
  Returned /\ ret.path # <<>>
    => LastStep.turns = MinTurns(unit, wld, ret.dest)

\* ------------------------------------------------------------------- C2
\* C2: for a unit that may move and a destination other than its tile,
\* find_path(d) returns a non-empty path whose last step is at d exactly
\* when some legal sequence of orders takes the unit to d alive, and an
\* empty path otherwise.
C2_PathIffReachable ==
  Returned /\ ~unit.stay /\ ret.dest # unit.tile
    => IF MinTurns(unit, wld, ret.dest) >= 0
       THEN ret.path # <<>> /\ LastStep.location = ret.dest
       ELSE ret.path = <<>>

\* ------------------------------------------------------------------- C3
AtLeastAsGood(a, b) ==
  /\ a.turns <= b.turns
  /\ a.moves_left >= b.moves_left
  /\ a.health >= b.health
  /\ a.fuel_left >= b.fuel_left

SameKey(a, b) ==
  a.location = b.location /\ a.loaded = b.loaded /\ a.moved = b.moved

\* C3: after every maybe_insert_vertex call, best_vertices holds no two
\* distinct vertices with the same location, loaded and moved of which one
\* has a cost at least as good as the other's in all four criteria, equal
\* costs included.
C3_DominanceSoundness ==
  \A i, j \in 1..Len(m_d.best_vertices) :
    i # j => LET a == m_d.arena[m_d.best_vertices[i]]
                 b == m_d.arena[m_d.best_vertices[j]]
             IN  ~(SameKey(a, b) /\ AtLeastAsGood(a.cost, b.cost))

\* A call has just replaced a vertex by a better one, next to a vertex of
\* the same location, loaded and moved that neither is better than.
C3_Witness ==
  /\ last_insert.outcome = "admitted"
  /\ last_insert.erased > 0
  /\ \E i, j \in 1..Len(m_d.best_vertices) :
       /\ i # j
       /\ SameKey(m_d.arena[m_d.best_vertices[i]],
                  m_d.arena[m_d.best_vertices[j]])

\* ------------------------------------------------------------------- C4
\* C4: find_path(d) called twice in a row with the same d and no
\* unit_changed in between returns the same path both times, and the
\* second call leaves best_vertices and the queue as the first left them.
C4_IdempotentRequery ==
  pc = "idle" /\ again.same => ret.path = again.path /\ m_d = again.m_d

\* ------------------------------------------------------------------- C5
\* C5: after any earlier find_path calls on the same path finder with no
\* unit_changed, find_path(d) returns the path that find_path(d) returns
\* on a path finder just constructed for the same unit.
C5_ReuseTransparent ==
  Returned => ret.path \in fresh_find_path(unit, wld, ret.dest)

\* ------------------------------------------------------------------- C6
\* The vertex insert_initial_vertex builds from the unit the constructor
\* copied.
C6_Root ==
  [location |-> unit.tile, loaded |-> unit.transporter,
   moved |-> unit.moved,
   cost |-> [turns |-> 0, moves_left |-> unit.moves_left,
             health |-> unit.hp, fuel_left |-> unit.fuel],
   parent |-> 0, order |-> NoOrder]

\* C6: right after unit_changed, best_vertices holds one vertex and the
\* queue one entry, both the root built from the unit copied at
\* construction, and no vertex admitted earlier is left; the find_path
\* that follows returns what a path finder just constructed returns.
C6_InvalidationReset ==
  /\ ret.op = "unit_changed"
       => /\ m_d.arena = <<C6_Root>>
          /\ m_d.best_vertices = <<1>>
          /\ m_d.queue = <<C6_Root>>
  /\ Returned /\ ret.first
       => ret.path \in fresh_find_path(unit, wld, ret.dest)

\* unit_changed has just run on a search that had admitted a vertex.
C6_Witness ==
  /\ pc = "idle"
  /\ ret.op = "unit_changed"
  /\ last_insert.outcome = "admitted"
  /\ Len(m_d.best_vertices) = 1

\* ------------------------------------------------------------------- C7
\* C7: when the destination is the unit's tile, or the unit must stay,
\* find_path returns an empty path and leaves best_vertices and the queue
\* as they were.
C7_EarlyReturns ==
  [][pc = "idle" /\ ret'.op = "find_path"
       /\ (unit.stay \/ unit.tile = destination')
       => pc' = "idle" /\ ret'.path = <<>> /\ m_d' = m_d]_vars

\* find_path returned for the unit's own tile on a search that had
\* admitted vertices and still has some queued.
C7_Witness ==
  /\ Returned
  /\ ret.dest = unit.tile
  /\ ret.path = <<>>
  /\ Len(m_d.best_vertices) > 1
  /\ m_d.queue # <<>>

\* ------------------------------------------------------------------- C8
\* The candidate's unit does not survive the turn change: its type uses
\* fuel, it is not refuelled where it is and has at most one unit of fuel,
\* or the hitpoints it is left with are not positive.
C8_DeadEnd(v) ==
  LET probe == fill_probe(unit, v)
  IN  \/ /\ utype_fuel(wld, probe) # 0
         /\ ~is_unit_being_refueled(wld, probe)
         /\ v.cost.fuel_left <= 1
      \/ unit_restore_hitpoints(wld, probe) <= 0

\* C8: a candidate that goes through the turn change and does not survive
\* it is neither added to best_vertices nor pushed to the queue; hence,
\* the root having hitpoints and fuel, every admitted vertex has
\* health > 0 and, for a type that uses fuel, fuel_left >= 1.
C8_DeadEndPruning ==
  /\ [][pc = "run_search" /\ pending # <<>>
          /\ Head(pending).cost.moves_left <= 0
          /\ C8_DeadEnd(Head(pending))
          => m_d' = m_d]_vars
  /\ [](\A id \in 1..Len(m_d.arena) :
          /\ m_d.arena[id].cost.health > 0
          /\ wld.fuel # 0 => m_d.arena[id].cost.fuel_left >= 1)

\* A call has just dropped a candidate that ran out of fuel.
C8_Witness ==
  /\ last_insert.outcome = "died"
  /\ wld.fuel # 0
  /\ Len(m_d.arena) > 1

\* ------------------------------------------------------------------- C9
\* C9: an admitted vertex that has a parent has the parent's turns or one
\* more; hence the turns along a returned path never decrease.  (A path
\* read through freed vertices has no defined steps to compare.)
C9_MonotonicTurns ==
  /\ \A id \in 1..Len(m_d.arena) :
       LET v == m_d.arena[id]
       IN  v.parent # 0
             => v.cost.turns - m_d.arena[v.parent].cost.turns \in {0, 1}
  /\ Returned /\ ret.path # Garbage
       => \A i, j \in 1..Len(ret.path) :
            i <= j => ret.path[i].turns <= ret.path[j].turns

\* A returned path of several steps that crosses a turn change.
C9_Witness ==
  /\ Returned
  /\ ret.path # Garbage
  /\ Len(ret.path) >= 2
  /\ ret.path[1].turns < LastStep.turns

\* ------------------------------------------------------------------ C10
\* find_path returned for a unit that is not loaded and had no move left,
\* and a neighbouring tile it may move to.
ScenarioD ==
  /\ Returned
  /\ ~unit.stay
  /\ unit.moves_left = 0
  /\ unit.transporter = 0
  /\ Adjacent(wld, unit.tile, ret.dest)
  /\ wld.terrain[ret.dest] # "unknown"
  /\ unit_can_move_to_tile(wld, unit, ret.dest)

LoopEnabled == pc = "run_search" /\ pending = <<>>

\* What a maybe_insert_vertex call of an expansion does to the successors
\* that wait for theirs: Insert is the only step that takes one away.
InsertStep == pc = "run_search" /\ pending # <<>> /\ pending' = Tail(pending)

\* find_path runs to its return without yielding: once called, the passes
\* of the while loop of run_search and the maybe_insert_vertex calls of an
\* expansion keep being executed.  This is weak fairness of Insert, stated
\* on its effect on pending, and of Loop, with ENABLED <<Loop>>_vars
\* written as LoopEnabled.
Fairness ==
  /\ WF_pending(InsertStep)
  /\ ([]<>(~LoopEnabled) \/ []<><<Loop>>_vars)

LiveSpec == Init /\ [][Next]_vars /\ Fairness

\* C11: every find_path call returns; the wait rule and cycles of load and
\* unload do not make the search admit vertices for ever.
C11_Termination == (pc = "run_search") ~> (pc = "idle")

\* A call has returned after a search that admitted a vertex produced by a
\* wait and a vertex produced by boarding or alighting.
C11_Witness ==
  /\ Returned
  /\ \E i, j \in 1..Len(m_d.arena) :
       /\ m_d.arena[i].order.order = "ORDER_FULL_MP"
       /\ m_d.arena[j].order.order = "ORDER_PERFORM_ACTION"
       /\ m_d.arena[j].parent # 0
       /\ m_d.arena[m_d.arena[j].parent].order.order = "ORDER_PERFORM_ACTION"

\* ------------------------------------------------------------------ C12
\* The while loop is about to pop an entry that no vertex of the bucket of
\* its location is equal to (vertex::operator==).
StalePop ==
  /\ pc = "run_search"
  /\ pending = <<>>
  /\ m_d.queue # <<>>
  /\ Head(m_d.queue).location # destination
  /\ \A i \in lower_bound(m_d, Head(m_d.queue).location)
               ..(upper_bound(m_d, Head(m_d.queue).location) - 1) :
       ~VertexEq(m_d.arena[m_d.best_vertices[i]], Head(m_d.queue))

\* C12: a popped entry that no vertex of the bucket of its location is
\* equal to is skipped: no expansion rule runs for it and best_vertices is
\* left as it was, whatever other locations have buckets.
C12_LazyDeletion ==
  [][StalePop => /\ pc' = "run_search"
                 /\ pending' = <<>>
                 /\ m_d'.best_vertices = m_d.best_vertices
                 /\ m_d'.arena = m_d.arena
                 /\ m_d'.queue = Tail(m_d.queue)]_vars

\* ------------------------------------------------------------------ C13
\* C13: whenever run_search expands a vertex, the vertex of best_vertices
\* handed to the expansion rules as source and parent has the location,
\* the loaded transport, the moved flag and the cost of the entry that was
\* popped from the queue.
C13_ExpandsThePopped ==
  [][(pc = "run_search" /\ pending = <<>> /\ pending' # <<>>) =>
       LET entry  == Head(m_d.queue)
           source == m_d.arena[Head(pending').parent]
       IN  /\ source.location = entry.location
           /\ source.loaded = entry.loaded
           /\ source.moved = entry.moved
           /\ source.cost = entry.cost]_vars

\* ------------------------------------------------------------------ C14
\* The successors of an expansion built by child_for_action alone: boarding
\* the transport of the source's tile and alighting from it.
SameTileActions == {"ACTION_TRANSPORT_BOARD", "ACTION_TRANSPORT_ALIGHT"}

\* C14: the successor built for a transport action is a copy of its source
\* with the movement cost of the action subtracted from moves_left and
\* nothing else of the cost changed; boarding at no cost leaves the
\* successor with the moves_left and the turns of its source.
C14_ActionCostSubtracted ==
  [][(pc = "run_search" /\ pending = <<>>) =>
       \A i \in 1..Len(pending') :
         LET next   == pending'[i]
             source == m_d.arena[next.parent]
         IN  (/\ next.order.order = "ORDER_PERFORM_ACTION"
              /\ next.order.action \in SameTileActions) =>
               /\ next.location = source.location
               /\ next.moved = source.moved
               /\ next.cost =
                    [source.cost EXCEPT !.moves_left = @ - wld.action_mp]]_vars

\* ------------------------------------------------------------------ C15
\* The vertex the last maybe_insert_vertex call admitted.
Admitted(d) == d.arena[Len(d.arena)]

\* C15: a candidate is admitted with the turns of its source plus one, the
\* full move rate and moved cleared exactly when the rule left it with no
\* move (moves_left <= 0); otherwise it is admitted as the rule built it.
\* Every successor of the wait rule goes through the turn change.
C15_TurnBoundary ==
  [][(pc = "run_search" /\ pending # <<>>) =>
       LET v      == Head(pending)
           source == m_d.arena[v.parent]
           a      == Admitted(m_d')
       IN  /\ v.order.order = "ORDER_FULL_MP" => v.cost.moves_left <= 0
           /\ v.cost.turns = source.cost.turns
           /\ last_insert'.outcome = "admitted" =>
                IF v.cost.moves_left <= 0
                THEN /\ a.cost.turns = source.cost.turns + 1
                     /\ a.cost.moves_left = unit_move_rate(wld, unit)
                     /\ a.moved = FALSE
                     /\ a.location = v.location
                     /\ a.loaded = v.loaded
                ELSE a = v]_vars

\* A search has admitted a wait successor a turn after its source, and a
\* move successor in the turn of its source with moves left.
C15_Witness ==
  \E i, j \in 2..Len(m_d.arena) :
    /\ m_d.arena[i].order.order = "ORDER_FULL_MP"
    /\ m_d.arena[i].cost.turns = m_d.arena[m_d.arena[i].parent].cost.turns + 1
    /\ m_d.arena[j].order.order = "ORDER_MOVE"
    /\ m_d.arena[j].cost.turns = m_d.arena[m_d.arena[j].parent].cost.turns
    /\ m_d.arena[j].cost.moves_left > 0
    /\ m_d.arena[j].moved

\* ------------------------------------------------------------------ C16
UnloadActions ==
  {"ACTION_TRANSPORT_ALIGHT", "ACTION_TRANSPORT_DISEMBARK1",
   "ACTION_TRANSPORT_DISEMBARK2"}

\* The frame a successor v of the vertex at address v.parent keeps.
LoadedFrame(v) ==
  LET parent == m_d.arena[v.parent]
  IN  /\ v.order.order = "ORDER_MOVE" =>
            parent.loaded = 0 /\ v.loaded = parent.loaded
      /\ v.order.order = "ORDER_FULL_MP" =>
            v.loaded = parent.loaded /\ v.location = parent.location
      /\ (/\ v.order.order = "ORDER_PERFORM_ACTION"
          /\ v.order.action \in UnloadActions) =>
            parent.loaded # 0 /\ v.loaded = 0

\* C16: a loaded unit does not move by itself and its loading changes only
\* by loading and unloading: no move vertex has a loaded parent, move and
\* wait successors keep the loaded transport of their parent, a wait
\* successor keeps its location, and unload successors are built only
\* from a loaded parent and are not loaded.  This holds of the successors
\* handed to maybe_insert_vertex and of the vertices admitted.
C16_LoadedFrame ==
  /\ \A i \in 2..Len(m_d.arena) : LoadedFrame(m_d.arena[i])
  /\ \A i \in 1..Len(pending) : LoadedFrame(pending[i])

\* A search has admitted a move vertex, a wait vertex of a loaded parent
\* and an unload vertex.
C16_Witness ==
  \E i, j, k \in 2..Len(m_d.arena) :
    /\ m_d.arena[i].order.order = "ORDER_MOVE"
    /\ m_d.arena[j].order.order = "ORDER_FULL_MP"
    /\ m_d.arena[j].loaded # 0
    /\ m_d.arena[k].order.order = "ORDER_PERFORM_ACTION"
    /\ m_d.arena[k].order.action \in UnloadActions

\* ------------------------------------------------------------------ C17
\* The addresses best_vertices owns.
Live == Range(m_d.best_vertices)

\* C17: the parent of every vertex best_vertices owns is itself owned by
\* best_vertices, so the parent walk from any of them visits only live
\* vertices and ends at the root (address 1, the vertex without parent).
C17_ParentLiveness ==
  \A id \in Live :
    /\ m_d.arena[id].parent # 0 => m_d.arena[id].parent \in Live
    /\ walked(m_d.arena, id) \subseteq Live
    /\ 1 \in walked(m_d.arena, id)

\* ------------------------------------------------------------------ C18
\* A find_path call is made that reaches the test run_search makes before
\* its loop (the destination has a vertex in best_vertices), which reads
\* queue.top().
ReadsTopBeforeLoop ==
  /\ pc = "idle"
  /\ ret'.op = "find_path"
  /\ ~early_return(unit, destination')
  /\ has_bucket(m_d, destination')

\* C18: run_search reads the minimum of the queue only when the queue is
\* not empty; a find_path for a destination that has an admitted vertex
\* does not read the top of a queue an earlier search has exhausted.
C18_TopOfNonEmptyQueue ==
  [][ReadsTopBeforeLoop => m_d.queue # <<>>]_vars

\* ------------------------------------------------------------------ C19
\* The vertex at address id had been expanded when the vertex at address
\* j was admitted: one of its successors was admitted no later than j.
ExpandedBefore(id, j) ==
  \E k \in 2..j : m_d.arena[k].parent = id

\* C19: the cost of every admitted successor is not smaller, in the order
\* of cost::operator<, than the cost of the vertex it was expanded from,
\* and no vertex is admitted with a cost strictly below the cost of a
\* vertex expanded before it.
C19_QueueMonotonicity ==
  \A j \in 2..Len(m_d.arena) :
    /\ ~CostLess(m_d.arena[j].cost, m_d.arena[m_d.arena[j].parent].cost)
    /\ \A id \in 1..(j - 1) :
         ExpandedBefore(id, j) =>
           ~CostLess(m_d.arena[j].cost, m_d.arena[id].cost)

\* ------------------------------------------------------------------ C20
\* C20: a maybe_insert_vertex call that removes an entry of best_vertices
\* admits its candidate, into the bucket and into the queue; a call that
\* does not admit its candidate leaves best_vertices and the queue as they
\* were; and a location that has a bucket keeps one until unit_changed.
C20_AllOrNothing ==
  [][/\ (pc = "run_search" /\ pending # <<>>) =>
          /\ last_insert'.erased > 0 =>
                /\ last_insert'.outcome = "admitted"
                /\ Len(m_d'.queue) = Len(m_d.queue) + 1
                /\ Len(m_d'.arena) \in Range(m_d'.best_vertices)
                /\ Admitted(m_d').location = Head(pending).location
          /\ last_insert'.outcome # "admitted" => m_d' = m_d
     /\ ret'.op = "find_path" =>
          \A loc \in Tiles : has_bucket(m_d, loc) => has_bucket(m_d', loc)]_vars

\* The last maybe_insert_vertex call removed an entry and admitted its
\* candidate, in a search that has also rejected a candidate.
C20_Witness ==
  /\ last_insert.erased > 0
  /\ last_insert.outcome = "admitted"
  /\ Len(m_d.queue) + Len(m_d.best_vertices) < 2 * Len(m_d.arena)

====
